---- MODULE Spec2Model ----
(***************************************************************************)
(* Model of NaomiExamples/smooth121.py (Smooth121, SM121_1d) and of        *)
(* code.py (callIngrid).                                                   *)
(*                                                                         *)
(* A labeled array is a record [dims, shape, data]: dims is the tuple of   *)
(* axis names, shape the tuple of axis lengths, data a function from the   *)
(* positional index tuples (1-based, in the order of dims) to values.      *)
(* A value is a record [nan, num]: NaN, or the number num.  The inputs are *)
(* multiples of Unit = 4^MaxCalls, so that every mean of two values the    *)
(* program takes is an exact integer: the arithmetic of the model is       *)
(* exact, as binary floating point is on such inputs.  Infinities and      *)
(* rounding are not modelled.                                              *)
(*                                                                         *)
(* Spec       one call of Smooth121, one action per iteration of its loops *)
(* SpecCalls  a caller that passes the returned array to further calls     *)
(* SpecIngrid one call of callIngrid                                       *)
(***************************************************************************)
EXTENDS Integers, Sequences, FiniteSets, TLC

VARIABLES
    \* ---- Smooth121 ----
    A,          \* the array the caller passes (never mutated)
    sdims,      \* argument: sequence of axis names to smooth over
    NSmooths,   \* argument: number of passes
    perdims,    \* argument: set of periodic axis names
    v,          \* local v of Smooth121, rebound by every step
    origdims,   \* local origdims
    smooth,     \* loop variable of the outer loop (0-based)
    di,         \* position of the inner loop in sdims (1-based)
    pc,         \* "loop", "done" (returned), "raised" (exception)
    ret,        \* the returned array, NoArray before the return
    exc,        \* the exception raised, "" if none
    sm_v,       \* parameter v of the last SM121_1d call
    sm_dim1,    \* parameter dim1 of the last SM121_1d call
    sm_iper,    \* parameter iper of the last SM121_1d call
    sm_calls,   \* number of SM121_1d calls made
    npasses,    \* passes a caller has asked for over its calls so far
    \* ---- callIngrid ----
    ingridcode, \* argument: the script, a sequence of code points
    ipc,        \* "idle", "called", "spawned", "communicated", "printed",
                \* "returned", "raised"
    p_stdin,    \* bytes the child read from its standard input
    p_out,      \* bytes the child wrote to its standard output
    p_err,      \* bytes the child wrote to its standard error
    tty_err,    \* bytes that arrived on the caller's own standard error
    ingridout,  \* local ingridout
    ingriderr,  \* local ingriderr
    printed,    \* text printed to the caller's standard output
    iret,       \* value returned by callIngrid
    iexc        \* the exception raised by callIngrid, "" if none

smoothvars == <<A, sdims, NSmooths, perdims, v, origdims, smooth, di, pc, ret,
                exc, sm_v, sm_dim1, sm_iper, sm_calls, npasses>>
ingridvars == <<ingridcode, ipc, p_stdin, p_out, p_err, tty_err, ingridout,
                ingriderr, printed, iret, iexc>>
vars == <<smoothvars, ingridvars>>

----------------------------------------------------------------------------
\* Bounds of the model
MaxLen == 3          \* longest axis of an input array
MaxSize == 9         \* most elements of an input array
MaxNSmooths == 2     \* largest NSmooths
MaxSdims == 2        \* longest sdims
MaxCalls == 4        \* most single-axis steps of a call: NSmooths * len(sdims)
MaxOut == 2          \* most bytes the child writes to one stream
MaxCode == 2         \* longest script, in code points

AxisNames == {"X", "Y"}

RECURSIVE Pow(_, _)
Pow(b, e) == IF e = 0 THEN 1 ELSE b * Pow(b, e - 1)

\* every single-axis step divides by 4
Unit == Pow(4, MaxCalls)

----------------------------------------------------------------------------
\* Values: floating-point numbers and NaN
NaN == [nan |-> TRUE, num |-> 0]
Num(n) == [nan |-> FALSE, num |-> n]

AddV(x, y) == IF x.nan \/ y.nan THEN NaN ELSE Num(x.num + y.num)
MulV(k, x) == IF x.nan THEN NaN ELSE Num(k * x.num)
DivV(x, k) == IF x.nan THEN NaN ELSE Num(x.num \div k)

----------------------------------------------------------------------------
\* Tuples
IndexOf(s, x) == CHOOSE i \in 1..Len(s) : s[i] = x
Contains(s, x) == \E i \in 1..Len(s) : s[i] = x
RemoveAt(s, i) == SubSeq(s, 1, i - 1) \o SubSeq(s, i + 1, Len(s))
InsertAt(s, i, x) == SubSeq(s, 1, i - 1) \o <<x>> \o SubSeq(s, i, Len(s))
SetAt(s, i, x) == [s EXCEPT ![i] = x]

RECURSIVE MaxOf(_)
MaxOf(s) == IF s = <<>> THEN 0
            ELSE LET m == MaxOf(Tail(s)) IN IF Head(s) > m THEN Head(s) ELSE m

\* the index tuples of an array of the given shape
IdxSet(shape) ==
    IF Len(shape) = 0 THEN {<<>>}
    ELSE {t \in [1..Len(shape) -> 1..MaxOf(shape)] :
             \A k \in 1..Len(shape) : t[k] <= shape[k]}

\* the function f written out element by element over the set S
RECURSIVE Tabulate(_, _)
Tabulate(f, S) ==
    IF S = {} THEN <<>>
    ELSE LET t == CHOOSE t \in S : TRUE
         IN  (t :> f[t]) @@ Tabulate(f, S \ {t})

\* an array holds its data element by element
Array(dims, shape, data) ==
    [dims |-> dims, shape |-> shape, data |-> Tabulate(data, DOMAIN data)]

\* row-major position of an index tuple, counted from 0
RECURSIVE LinIndex(_, _)
LinIndex(t, shape) ==
    IF t = <<>> THEN 0
    ELSE LinIndex(SubSeq(t, 1, Len(t) - 1), SubSeq(shape, 1, Len(shape) - 1))
             * shape[Len(shape)] + (t[Len(t)] - 1)

\* v.sizes[dim]
SizeOf(a, dim) == a.shape[IndexOf(a.dims, dim)]

----------------------------------------------------------------------------
\* The xarray operations the program uses

\* DataArray.dims membership: isel and rolling raise on an absent name
HasDim(a, dim) == Contains(a.dims, dim)

\* v.isel(**{dim: i}) with an integer i (Python index, negative from the
\* end): the slice at that position; the axis is dropped
isel_int(a, dim, i) ==
    LET ax == IndexOf(a.dims, dim)
        n == a.shape[ax]
        pos == IF i < 0 THEN n + i + 1 ELSE i + 1
        nshape == RemoveAt(a.shape, ax)
    IN  Array(RemoveAt(a.dims, ax), nshape,
              [t \in IdxSet(nshape) |-> a.data[InsertAt(t, ax, pos)]])

\* the data of a kept in its stored order under the axis names newdims
\* (a reshape, not a transpose)
reshape(a, newdims) ==
    LET n == Len(newdims)
        nshape == [k \in 1..n |-> a.shape[IndexOf(a.dims, newdims[k])]]
    IN  Array(newdims, nshape,
              [t \in IdxSet(nshape) |->
                  a.data[CHOOSE u \in IdxSet(a.shape) :
                             LinIndex(u, a.shape) = LinIndex(t, nshape)]])

\* variant of transpose: the axes are renamed, the data is not permuted
transpose_as_reshape(a, newdims) == reshape(a, newdims)

\* v.transpose(*newdims): the axes reordered, the data permuted with them
transpose(a, newdims) ==
    LET n == Len(newdims)
        nshape == [k \in 1..n |-> a.shape[IndexOf(a.dims, newdims[k])]]
    IN  Array(newdims, nshape,
              [t \in IdxSet(nshape) |->
                  a.data[[k \in 1..n |-> t[IndexOf(newdims, a.dims[k])]]]])

\* variant of set_dims: the missing axes are added, the data is not permuted
set_dims_unpermuted(a, dims, shape) ==
    LET missing == SelectSeq(dims, LAMBDA d : ~Contains(a.dims, d))
        edims == missing \o a.dims
        eshape == [k \in 1..Len(edims) |-> shape[IndexOf(dims, edims[k])]]
        expanded == Array(edims, eshape,
                          [t \in IdxSet(eshape) |->
                              a.data[SubSeq(t, Len(missing) + 1, Len(t))]])
    IN  reshape(expanded, dims)

\* Variable.set_dims(dims, shape): the missing axes are added in front,
\* the data is broadcast along them, then the axes are put in the order dims
set_dims(a, dims, shape) ==
    LET missing == SelectSeq(dims, LAMBDA d : ~Contains(a.dims, d))
        edims == missing \o a.dims
        eshape == [k \in 1..Len(edims) |-> shape[IndexOf(dims, edims[k])]]
        expanded == Array(edims, eshape,
                          [t \in IdxSet(eshape) |->
                              a.data[SubSeq(t, Len(missing) + 1, Len(t))]])
    IN  transpose(expanded, dims)

RECURSIVE Unique(_)
Unique(s) ==
    IF s = <<>> THEN <<>>
    ELSE LET u == Unique(SubSeq(s, 1, Len(s) - 1))
             x == s[Len(s)]
         IN  IF Contains(u, x) THEN u ELSE Append(u, x)

RECURSIVE AllDims(_)
AllDims(arrs) ==
    IF arrs = <<>> THEN <<>> ELSE Head(arrs).dims \o AllDims(Tail(arrs))

\* the axis order of xr.concat's result: the names in order of first
\* appearance over the arrays, the concatenation axis in front if new
common_dims(arrs, dim) ==
    LET u == Unique(AllDims(arrs))
    IN  IF Contains(u, dim) THEN u ELSE <<dim>> \o u

\* length of an array along the concatenation axis (1 if it lacks the axis)
concat_dim_length(a, dim) == IF HasDim(a, dim) THEN SizeOf(a, dim) ELSE 1

\* xr.concat(arrs, dim=dim): every array is brought to common_dims, then
\* the arrays are joined along dim in the order given
concat(arrs, dim) ==
    LET cd == common_dims(arrs, dim)
        ax == IndexOf(cd, dim)
        size(d) == LET k == CHOOSE k \in 1..Len(arrs) : HasDim(arrs[k], d)
                   IN  SizeOf(arrs[k], d)
        cshape(k) == [j \in 1..Len(cd) |->
                         IF cd[j] = dim THEN concat_dim_length(arrs[k], dim)
                         ELSE size(cd[j])]
        aligned == Tabulate([k \in 1..Len(arrs) |->
                                IF arrs[k].dims = cd THEN arrs[k]
                                ELSE set_dims(arrs[k], cd, cshape(k))],
                            1..Len(arrs))
        offset[k \in 1..(Len(arrs) + 1)] ==
            IF k = 1 THEN 0
            ELSE offset[k - 1] + concat_dim_length(arrs[k - 1], dim)
        nshape == [j \in 1..Len(cd) |->
                      IF j = ax THEN offset[Len(arrs) + 1] ELSE size(cd[j])]
        piece(p) == CHOOSE k \in 1..Len(arrs) :
                        offset[k] < p /\ p <= offset[k + 1]
    IN  Array(cd, nshape,
              [t \in IdxSet(nshape) |->
                  LET k == piece(t[ax])
                  IN  aligned[k].data[SetAt(t, ax, t[ax] - offset[k])]])

\* the sum of the window values ending at position t along axis ax
RECURSIVE WindowSum(_, _, _, _)
WindowSum(a, t, ax, w) ==
    IF w = 0 THEN Num(0)
    ELSE AddV(a.data[SetAt(t, ax, t[ax] - (w - 1))],
              WindowSum(a, t, ax, w - 1))

\* variant of rolling_mean with min_periods = 1: the mean of the values the
\* window has, NaN only where it has none
rolling_mean_min_periods_1(a, dim, window) ==
    LET ax == IndexOf(a.dims, dim)
        have(t) == {j \in 0..(window - 1) :
                       /\ t[ax] - j >= 1
                       /\ ~a.data[SetAt(t, ax, t[ax] - j)].nan}
        sum(t) == LET f[J \in SUBSET have(t)] ==
                          IF J = {} THEN 0
                          ELSE LET j == CHOOSE j \in J : TRUE
                               IN  a.data[SetAt(t, ax, t[ax] - j)].num
                                       + f[J \ {j}]
                  IN  f[have(t)]
    IN  Array(a.dims, a.shape,
              [t \in IdxSet(a.shape) |->
                  IF have(t) = {} THEN NaN
                  ELSE Num(sum(t) \div Cardinality(have(t)))])

\* a.rolling(**{dim: window}).mean(): the mean of the window ending at each
\* position; min_periods defaults to the window size, so a position whose
\* window is incomplete or holds a NaN is NaN
rolling_mean(a, dim, window) ==
    LET ax == IndexOf(a.dims, dim)
    IN  Array(a.dims, a.shape,
              [t \in IdxSet(a.shape) |->
                  IF t[ax] < window THEN NaN
                  ELSE DivV(WindowSum(a, t, ax, window), window)])

\* variant of shift: the data moved the other way
shift_reversed(a, dim, k) ==
    LET ax == IndexOf(a.dims, dim)
    IN  Array(a.dims, a.shape,
              [t \in IdxSet(a.shape) |->
                  LET s == t[ax] + k
                  IN  IF s >= 1 /\ s <= a.shape[ax]
                      THEN a.data[SetAt(t, ax, s)] ELSE NaN])

\* a.shift(**{dim: k}): the data moved by k positions along dim, the
\* positions left empty filled with NaN
shift(a, dim, k) ==
    LET ax == IndexOf(a.dims, dim)
    IN  Array(a.dims, a.shape,
              [t \in IdxSet(a.shape) |->
                  LET s == t[ax] - k
                  IN  IF s >= 1 /\ s <= a.shape[ax]
                      THEN a.data[SetAt(t, ax, s)] ELSE NaN])

\* a.isel(**{dim: slice(start, stop)}) with start >= 0 and stop < 0
isel_slice(a, dim, start, stop) ==
    LET ax == IndexOf(a.dims, dim)
        n == a.shape[ax]
        m == IF n + stop - start > 0 THEN n + stop - start ELSE 0
        nshape == SetAt(a.shape, ax, m)
    IN  Array(a.dims, nshape,
              [t \in IdxSet(nshape) |-> a.data[SetAt(t, ax, t[ax] + start)]])

----------------------------------------------------------------------------
\* SM121_1d

\* variant of vPad: wrap-around whatever iper is
vPad_always_periodic(a, dim1, iper) ==
    concat(<<isel_int(a, dim1, -1), a, isel_int(a, dim1, 0)>>, dim1)

\* variant of vPad: without iper the first slice is put on both ends
vPad_first_on_both_ends(a, dim1, iper) ==
    IF iper
    THEN concat(<<isel_int(a, dim1, -1), a, isel_int(a, dim1, 0)>>, dim1)
    ELSE concat(<<isel_int(a, dim1, 0), a, isel_int(a, dim1, 0)>>, dim1)

\* the padded array: wrap-around if iper, duplicated edges otherwise
vPad(a, dim1, iper) ==
    IF iper
    THEN concat(<<isel_int(a, dim1, -1), a, isel_int(a, dim1, 0)>>, dim1)
    ELSE concat(<<isel_int(a, dim1, 0), a, isel_int(a, dim1, -1)>>, dim1)

\* average from centers to edges
vsm1(a, dim1, iper) == rolling_mean(vPad(a, dim1, iper), dim1, 2)

\* average back to centers
vsm2(a, dim1, iper) == shift(rolling_mean(vsm1(a, dim1, iper), dim1, 2), dim1, -1)

vUnPad(a, dim1, iper) == isel_slice(vsm2(a, dim1, iper), dim1, 1, -1)

SM121_1d(a, dim1, iper) == vUnPad(a, dim1, iper)

----------------------------------------------------------------------------
\* Smooth121 as a function (for inputs on which no step raises)

\* variant of PassRange: range(0, NSmooths + 1)
PassRangeInclusive(n) == 0..n

\* range(0, NSmooths)
PassRange(n) == 0..(n - 1)

\* for dim in sdims, from position k on: v = SM121_1d(v, dim, dim in perdims)
RECURSIVE OnePass(_, _, _, _)
OnePass(a, sd, per, k) ==
    IF k > Len(sd) THEN a
    ELSE OnePass(SM121_1d(a, sd[k], sd[k] \in per), sd, per, k + 1)

\* for smooth in range(0, NSmooths), k iterations
RECURSIVE Passes(_, _, _, _)
Passes(a, sd, per, k) ==
    IF k = 0 THEN a
    ELSE OnePass(Passes(a, sd, per, k - 1), sd, per, 1)

Smooth121(a, sd, n, per) ==
    transpose(Passes(a, sd, per, Cardinality(PassRange(n))), a.dims)

----------------------------------------------------------------------------
\* Inputs

NoArray == Array(<<"none">>, <<0>>, <<>>)

\* the axes of the input arrays, in the order the array has them: one axis
\* or two (the program treats all names alike, so the other arrangements of
\* the names are renamings of these)
InputDims == {<<"X">>, <<"X", "Y">>}

RECURSIVE Product(_)
Product(s) == IF s = <<>> THEN 1 ELSE Head(s) * Product(Tail(s))

InputShapes(d) ==
    {shape \in [1..Len(d) -> 1..MaxLen] : Product(shape) <= MaxSize}

\* an input array: the grid 0, 1, 2, ... (hot = <<>>) or a single nonzero
\* element at hot, with a NaN at nanpos (none if nanpos = <<>>)
InputArray(d, shape, hot, nanpos) ==
    Array(d, shape,
          [t \in IdxSet(shape) |->
              IF t = nanpos THEN NaN
              ELSE IF hot = <<>> THEN Num(Unit * LinIndex(t, shape))
              ELSE IF t = hot THEN Num(Unit) ELSE Num(0)])

InputSdims == UNION {[1..n -> AxisNames] : n \in 0..MaxSdims}

\* Python's None, and a bytes object
None == [none |-> TRUE, bytes |-> <<>>]
Bytes(b) == [none |-> FALSE, bytes |-> b]

IngridIdle ==
    /\ ingridcode = <<>> /\ ipc = "idle" /\ p_stdin = <<>> /\ p_out = <<>>
    /\ p_err = <<>> /\ tty_err = <<>> /\ ingridout = None /\ ingriderr = None
    /\ printed = <<>> /\ iret = None /\ iexc = ""

Init ==
    /\ \E d \in InputDims : \E shape \in InputShapes(d) :
       \E hot, nanpos \in IdxSet(shape) \cup {<<>>} :
          /\ hot # <<>> => nanpos = <<>>
          /\ A = InputArray(d, shape, hot, nanpos)
    /\ sdims \in InputSdims
    /\ NSmooths \in 0..MaxNSmooths
    /\ NSmooths * Len(sdims) <= MaxCalls
    /\ perdims \in SUBSET AxisNames
    /\ v = A
    /\ origdims = A.dims
    /\ smooth = 0
    /\ di = 1
    /\ pc = "loop"
    /\ ret = NoArray
    /\ exc = ""
    /\ sm_v = NoArray
    /\ sm_dim1 = ""
    /\ sm_iper = FALSE
    /\ sm_calls = 0
    /\ npasses = 0
    /\ IngridIdle

----------------------------------------------------------------------------
\* Smooth121 as the program runs it

\* the loops have an iteration left
IterLeft == smooth \in PassRange(NSmooths) /\ di <= Len(sdims)

\* one iteration of the inner loop: v = SM121_1d(v, dim, dim in perdims)
Step ==
    /\ pc = "loop"
    /\ IterLeft
    /\ HasDim(v, sdims[di])
    /\ sm_v' = v
    /\ sm_dim1' = sdims[di]
    /\ sm_iper' = (sdims[di] \in perdims)
    /\ sm_calls' = sm_calls + 1
    /\ v' = SM121_1d(v, sdims[di], sdims[di] \in perdims)
    /\ IF di < Len(sdims)
       THEN di' = di + 1 /\ smooth' = smooth
       ELSE di' = 1 /\ smooth' = smooth + 1
    /\ UNCHANGED <<A, sdims, NSmooths, perdims, origdims, pc, ret, exc>>
    /\ UNCHANGED <<npasses, ingridvars>>

\* variant of StepRaise: an axis the array does not have is skipped
StepSkip ==
    /\ pc = "loop"
    /\ IterLeft
    /\ ~HasDim(v, sdims[di])
    /\ IF di < Len(sdims)
       THEN di' = di + 1 /\ smooth' = smooth
       ELSE di' = 1 /\ smooth' = smooth + 1
    /\ UNCHANGED <<A, sdims, NSmooths, perdims, v, origdims, pc, ret, exc,
                   sm_v, sm_dim1, sm_iper, sm_calls>>
    /\ UNCHANGED <<npasses, ingridvars>>

\* v.isel(**{dim1: ...}) on an axis the array does not have raises
\* ValueError, which leaves SM121_1d and Smooth121
StepRaise ==
    /\ pc = "loop"
    /\ IterLeft
    /\ ~HasDim(v, sdims[di])
    /\ sm_v' = v
    /\ sm_dim1' = sdims[di]
    /\ sm_iper' = (sdims[di] \in perdims)
    /\ sm_calls' = sm_calls + 1
    /\ pc' = "raised"
    /\ exc' = "ValueError"
    /\ UNCHANGED <<A, sdims, NSmooths, perdims, v, origdims, smooth, di, ret>>
    /\ UNCHANGED <<npasses, ingridvars>>

\* variant of Return: return v
ReturnUntransposed ==
    /\ pc = "loop"
    /\ ~IterLeft
    /\ ret' = v
    /\ pc' = "done"
    /\ UNCHANGED <<A, sdims, NSmooths, perdims, v, origdims, smooth, di, exc,
                   sm_v, sm_dim1, sm_iper, sm_calls>>
    /\ UNCHANGED <<npasses, ingridvars>>

\* return v.transpose(*origdims)
Return ==
    /\ pc = "loop"
    /\ ~IterLeft
    /\ ret' = transpose(v, origdims)
    /\ pc' = "done"
    /\ UNCHANGED <<A, sdims, NSmooths, perdims, v, origdims, smooth, di, exc,
                   sm_v, sm_dim1, sm_iper, sm_calls>>
    /\ UNCHANGED <<npasses, ingridvars>>

Next == Step \/ StepRaise \/ Return

Spec == Init /\ [][Next]_vars

----------------------------------------------------------------------------
\* Reading an array by axis name

RangeOf(s) == {s[i] : i \in 1..Len(s)}

\* the labelled positions of an array: axis name -> index (1-based)
Labels(a) ==
    {lab \in [RangeOf(a.dims) -> 1..MaxOf(a.shape)] :
        \A k \in 1..Len(a.dims) : lab[a.dims[k]] <= a.shape[k]}

\* the element at a labelled position, whatever the order of the axes
At(a, lab) == a.data[[k \in 1..Len(a.dims) |-> lab[a.dims[k]]]]

\* the element at a labelled position with the index along dim replaced
AtDim(a, lab, dim, i) == At(a, [lab EXCEPT ![dim] = i])

NoNaN(a) == \A t \in DOMAIN a.data : ~a.data[t].nan

RECURSIVE SumOver(_, _)
SumOver(a, S) ==
    IF S = {} THEN 0
    ELSE LET t == CHOOSE t \in S : TRUE
         IN  a.data[t].num + SumOver(a, S \ {t})

\* the sum of all elements of an array without NaN
Total(a) == SumOver(a, DOMAIN a.data)

\* the last SM121_1d call returned and v holds its result
Stepped == sm_calls > 0 /\ pc # "raised"

\* some requested axis is not an axis of the array
HasAbsent == \E i \in 1..Len(sdims) : ~Contains(A.dims, sdims[i])

----------------------------------------------------------------------------
\* C1: the returned array has the axis order of the input and the length of
\* the input along every axis, whatever order the axes had during the passes.
C1_ShapeAndOrder ==
    pc = "done" => ret.dims = A.dims /\ ret.shape = A.shape

\* a call that smoothed both axes of a 2-D array, the axes being in another
\* order than the caller's before the return
C1_Witness ==
    /\ pc = "done" /\ sm_calls >= 2 /\ Len(A.dims) = 2
    /\ A.shape[1] # A.shape[2]
    /\ v.dims # A.dims /\ ret.dims = A.dims

\* C2: a non-periodic step on an axis of length n >= 2 gives
\* (v[i-1] + 2 v[i] + v[i+1]) / 4 inside, (3 v[0] + v[1]) / 4 at the first
\* and (3 v[n-1] + v[n-2]) / 4 at the last position.
C2_NonPeriodicClosedForm ==
    (Stepped /\ ~sm_iper /\ SizeOf(sm_v, sm_dim1) >= 2) =>
        \A lab \in Labels(sm_v) :
            LET n == SizeOf(sm_v, sm_dim1)
                i == lab[sm_dim1]
                x(j) == AtDim(sm_v, lab, sm_dim1, j)
            IN  At(v, lab) =
                    IF i = 1 THEN DivV(AddV(MulV(3, x(1)), x(2)), 4)
                    ELSE IF i = n THEN DivV(AddV(MulV(3, x(n)), x(n - 1)), 4)
                    ELSE DivV(AddV(AddV(x(i - 1), MulV(2, x(i))), x(i + 1)), 4)

\* a non-periodic step along an axis of length >= 3 of a 2-D array whose
\* values differ along that axis
C2_Witness ==
    /\ Stepped /\ ~sm_iper /\ SizeOf(sm_v, sm_dim1) >= 3
    /\ Len(sm_v.dims) = 2 /\ NoNaN(sm_v)
    /\ \E lab \in Labels(sm_v) :
          /\ lab[sm_dim1] = 1
          /\ At(sm_v, lab) # AtDim(sm_v, lab, sm_dim1, 2)
          /\ At(v, lab) # At(sm_v, lab)

\* C3: a periodic step on an axis of length n >= 1 gives
\* (v[(i-1) mod n] + 2 v[i] + v[(i+1) mod n]) / 4 at every position i.
C3_PeriodicClosedForm ==
    (Stepped /\ sm_iper) =>
        \A lab \in Labels(sm_v) :
            LET n == SizeOf(sm_v, sm_dim1)
                i == lab[sm_dim1] - 1
                x(j) == AtDim(sm_v, lab, sm_dim1, j + 1)
            IN  At(v, lab) =
                    DivV(AddV(AddV(x((i - 1) % n), MulV(2, x(i))),
                              x((i + 1) % n)), 4)

\* a periodic step whose first position took the last element as neighbour
C3_Witness ==
    /\ Stepped /\ sm_iper /\ SizeOf(sm_v, sm_dim1) >= 3 /\ NoNaN(sm_v)
    /\ \E lab \in Labels(sm_v) :
          LET n == SizeOf(sm_v, sm_dim1)
          IN  /\ lab[sm_dim1] = 1
              /\ AtDim(sm_v, lab, sm_dim1, n) # At(sm_v, lab)
              /\ At(v, lab).num * 4 # 3 * At(sm_v, lab).num
                                        + AtDim(sm_v, lab, sm_dim1, 2).num

----------------------------------------------------------------------------
\* A caller that smooths an array by one or more calls of Smooth121 with the
\* same sdims and perdims, passing the array one call returned to the next;
\* A is the array the caller starts with

\* v = Smooth121(v, sdims, NSmooths = n, perdims = perdims), once more
CallAgain ==
    /\ pc = "done"
    /\ \E n \in 1..MaxNSmooths :
          /\ npasses + NSmooths + n <= MaxNSmooths
          /\ (npasses + NSmooths + n) * Len(sdims) <= MaxCalls
          /\ NSmooths' = n
    /\ npasses' = npasses + NSmooths
    /\ v' = ret
    /\ origdims' = ret.dims
    /\ smooth' = 0
    /\ di' = 1
    /\ pc' = "loop"
    /\ ret' = NoArray
    /\ UNCHANGED <<A, sdims, perdims, exc, sm_v, sm_dim1, sm_iper, sm_calls>>
    /\ UNCHANGED ingridvars

NextCalls == Step \/ StepRaise \/ Return \/ CallAgain

SpecCalls == Init /\ [][NextCalls]_vars

\* C4: calls with NSmooths = m and then NSmooths = n give what one call with
\* NSmooths = m + n gives: whatever calls made up the passes, the array
\* returned is the one a single call with the summed NSmooths returns.
C4_MultiPass ==
    pc = "done" => ret = Smooth121(A, sdims, npasses + NSmooths, perdims)

\* a second call with NSmooths = 1 after a first with NSmooths = 1, over
\* both axes of a 2-D array, one of them periodic
C4_Witness ==
    /\ pc = "done" /\ npasses = 1 /\ NSmooths = 1
    /\ Len(A.dims) = 2 /\ Len(sdims) = 2 /\ sdims[1] # sdims[2]
    /\ A.shape[1] # A.shape[2]
    /\ perdims = {sdims[1]}
    /\ ret # A
    /\ ret # Smooth121(A, sdims, 1, perdims)

\* the array the program returns step by step is the array of the function
MachineIsFunction ==
    pc = "done" => ret = Smooth121(A, sdims, NSmooths, perdims)

\* the other order of a two-element axis list
Swapped(sd) == <<sd[2], sd[1]>>

\* one pass over both axes of a 2-D array, neither of them periodic
TwoAxisCall ==
    /\ pc = "done" /\ NSmooths = 1
    /\ Len(A.dims) = 2 /\ Len(sdims) = 2 /\ sdims[1] # sdims[2]
    /\ perdims \cap RangeOf(A.dims) = {}

\* a labelled position on the border of the array
OnBorder(a, lab) ==
    \E k \in 1..Len(a.dims) :
        lab[a.dims[k]] = 1 \/ lab[a.dims[k]] = a.shape[k]

\* C5 as claimed: on an array with an interior, the passes [X, Y] and [Y, X]
\* agree at every interior element and differ in at least one border element.
C5_EdgeEffectsDiffer ==
    (TwoAxisCall /\ \A k \in 1..2 : A.shape[k] >= 3) =>
        LET other == Smooth121(A, Swapped(sdims), 1, perdims)
        IN  /\ \A lab \in Labels(A) :
                  ~OnBorder(A, lab) => At(ret, lab) = At(other, lab)
            /\ \E lab \in Labels(A) :
                  OnBorder(A, lab) /\ At(ret, lab) # At(other, lab)

\* C5 as amended: the passes [X, Y] and [Y, X] give the same array, border
\* and corner elements included.
C5_OrderIrrelevant ==
    TwoAxisCall => ret = Smooth121(A, Swapped(sdims), 1, perdims)

\* the 3x3 grid 0..8 smoothed over both axes, its corner changed
C5_Witness ==
    /\ TwoAxisCall
    /\ A = InputArray(A.dims, <<3, 3>>, <<>>, <<>>)
    /\ ret.data[<<1, 1>>] # A.data[<<1, 1>>]
    /\ ret.data[<<2, 2>>] = A.data[<<2, 2>>]

\* the three stencil inputs of a position: the element and its neighbours
\* along dim, the neighbour missing at an end being the element itself or
\* the element at the other end (iper)
StencilInputs(a, dim, iper, lab) ==
    LET n == SizeOf(a, dim)
        i == lab[dim]
        l == IF i > 1 THEN i - 1 ELSE IF iper THEN n ELSE 1
        r == IF i < n THEN i + 1 ELSE IF iper THEN 1 ELSE n
    IN  {AtDim(a, lab, dim, l), At(a, lab), AtDim(a, lab, dim, r)}

C7_AbsentAxisFails ==
    HasAbsent => pc \in {"loop", "raised"} /\ ret = NoArray

\* C7 as amended: with an absent name in sdims and NSmooths >= 1 the call
\* cannot return (while it runs an iteration is left, so Return is disabled
\* and a step or the error is next), the error raised is the ValueError of
\* the absent axis, and no array is returned.
C7_AbsentAxisFailsIfLooping ==
    (HasAbsent /\ NSmooths >= 1) =>
        /\ pc \in {"loop", "raised"}
        /\ ret = NoArray
        /\ pc = "loop" => IterLeft
        /\ pc = "raised" => exc = "ValueError"

\* the error raised at the second name of sdims, after a step on the first
C7_Witness ==
    /\ pc = "raised" /\ exc = "ValueError" /\ sm_calls = 2
    /\ HasAbsent /\ Contains(A.dims, sdims[1]) /\ v # A /\ ret = NoArray

\* C8: with NSmooths = 0 the returned array is the input array.
C8_IdentityAtZero ==
    (pc = "done" /\ NSmooths = 0) => ret = A

\* a call with NSmooths = 0 and axes to smooth over, one of them periodic
C8_Witness ==
    /\ pc = "done" /\ NSmooths = 0 /\ Len(sdims) = 2 /\ Len(A.dims) = 2
    /\ sdims[1] \in perdims /\ ret = A /\ sm_calls = 0

\* C10: a step on an array without NaN leaves the sum along the smoothed
\* axis unchanged, at every position of the other axes, in both boundary
\* modes; so the total of the returned array is the total of the input.
C10_SumConserved ==
    /\ (Stepped /\ NoNaN(sm_v)) =>
          \A lab \in Labels(sm_v) :
              LET n == SizeOf(sm_v, sm_dim1)
                  line(a) == {[k \in 1..Len(a.dims) |->
                                  IF a.dims[k] = sm_dim1 THEN i
                                  ELSE lab[a.dims[k]]] : i \in 1..n}
              IN  SumOver(v, line(v)) = SumOver(sm_v, line(sm_v))
    /\ (pc = "done" /\ NoNaN(A)) => Total(ret) = Total(A)

\* a non-periodic step that changed the elements of a line and kept its sum
C10_Witness ==
    /\ Stepped /\ NoNaN(sm_v) /\ ~sm_iper /\ SizeOf(sm_v, sm_dim1) >= 3
    /\ Len(sm_v.dims) = 2
    /\ Total(sm_v) > 0
    /\ \A lab \in Labels(sm_v) :
          At(sm_v, lab).num > 0 => At(v, lab) # At(sm_v, lab)

----------------------------------------------------------------------------
\* callIngrid

\* the code points of the scripts: A, e-acute, the euro sign
CodePoints == {65, 233, 8364}
\* the bytes the child writes to its standard output: A, and the two bytes
\* of e-acute, in any arrangement
OutBytes == {65, 195, 169}
\* the bytes the child writes to its standard error: E, newline
ErrBytes == {69, 10}

SeqsUpTo(S, n) == UNION {[1..k -> S] : k \in 0..n}

\* bytes(str, 'utf-8') for one code point
Utf8Char(cp) ==
    IF cp < 128 THEN <<cp>>
    ELSE IF cp < 2048 THEN <<192 + (cp \div 64), 128 + (cp % 64)>>
    ELSE <<224 + (cp \div 4096), 128 + ((cp \div 64) % 64), 128 + (cp % 64)>>

\* bytes(str, 'utf-8')
RECURSIVE Utf8Encode(_)
Utf8Encode(str) ==
    IF str = <<>> THEN <<>> ELSE Utf8Char(Head(str)) \o Utf8Encode(Tail(str))

IsCont(b) == b >= 128 /\ b <= 191

\* bytes.decode(): [ok, text]; ok is FALSE where Python raises
\* UnicodeDecodeError (strict UTF-8)
RECURSIVE Utf8Decode(_)
Utf8Decode(b) ==
    IF b = <<>> THEN [ok |-> TRUE, text |-> <<>>]
    ELSE LET b1 == b[1]
             width == IF b1 < 128 THEN 1
                      ELSE IF b1 >= 194 /\ b1 <= 223 THEN 2
                      ELSE IF b1 >= 224 /\ b1 <= 239 THEN 3
                      ELSE 0
             valid == /\ width > 0
                      /\ Len(b) >= width
                      /\ \A k \in 2..width : IsCont(b[k])
                      /\ (b1 = 224 => b[2] >= 160)
                      /\ (b1 = 237 => b[2] <= 159)
             cp == IF width = 1 THEN b1
                   ELSE IF width = 2 THEN (b1 - 192) * 64 + (b[2] - 128)
                   ELSE (b1 - 224) * 4096 + (b[2] - 128) * 64 + (b[3] - 128)
         IN  IF ~valid THEN [ok |-> FALSE, text |-> <<>>]
             ELSE LET rest == Utf8Decode(SubSeq(b, width + 1, Len(b)))
                  IN  [ok |-> rest.ok,
                       text |-> IF rest.ok THEN <<cp>> \o rest.text ELSE <<>>]

\* the streams of the child that Popen connects to pipes: stdin=PIPE,
\* stdout=PIPE; a stream that is not named is inherited from the caller
PopenPipes == {"stdin", "stdout"}

\* what communicate() returns for a stream: its data if the stream is a
\* pipe, None otherwise
Communicated(stream, data) ==
    IF stream \in PopenPipes THEN Bytes(data) ELSE None

SmoothIdle ==
    /\ A = NoArray /\ sdims = <<>> /\ NSmooths = 0 /\ perdims = {}
    /\ v = NoArray /\ origdims = <<>> /\ smooth = 0 /\ di = 1 /\ pc = "idle"
    /\ ret = NoArray /\ exc = "" /\ sm_v = NoArray /\ sm_dim1 = ""
    /\ sm_iper = FALSE /\ sm_calls = 0 /\ npasses = 0

InitIngrid ==
    /\ SmoothIdle
    /\ ingridcode \in SeqsUpTo(CodePoints, MaxCode)
    /\ ipc = "called"
    /\ p_stdin = <<>> /\ p_out = <<>> /\ p_err = <<>> /\ tty_err = <<>>
    /\ ingridout = None /\ ingriderr = None
    /\ printed = <<>> /\ iret = None /\ iexc = ""

\* p = Popen(['/usr/local/bin/ingrid'], stdin=PIPE, stdout=PIPE)
Popen ==
    /\ ipc = "called"
    /\ ipc' = "spawned"
    /\ UNCHANGED <<ingridcode, p_stdin, p_out, p_err, tty_err, ingridout,
                   ingriderr, printed, iret, iexc>>
    /\ UNCHANGED smoothvars

\* the executable is missing or cannot be run: Popen raises OSError
PopenRaise ==
    /\ ipc = "called"
    /\ ipc' = "raised"
    /\ iexc' = "OSError"
    /\ UNCHANGED <<ingridcode, p_stdin, p_out, p_err, tty_err, ingridout,
                   ingriderr, printed, iret>>
    /\ UNCHANGED smoothvars

\* ingridout, ingriderr = p.communicate(input=bytes(ingridcode, 'utf-8')):
\* the child reads the bytes, writes to its two output streams and exits
Communicate ==
    /\ ipc = "spawned"
    /\ \E out \in SeqsUpTo(OutBytes, MaxOut), err \in SeqsUpTo(ErrBytes, MaxOut) :
          /\ p_stdin' = Utf8Encode(ingridcode)
          /\ p_out' = out
          /\ p_err' = err
          /\ tty_err' = IF "stderr" \in PopenPipes THEN tty_err
                        ELSE tty_err \o err
          /\ ingridout' = Communicated("stdout", out)
          /\ ingriderr' = Communicated("stderr", err)
    /\ ipc' = "communicated"
    /\ UNCHANGED <<ingridcode, printed, iret, iexc>>
    /\ UNCHANGED smoothvars

\* print (ingridout.decode())
PrintOut ==
    /\ ipc = "communicated"
    /\ Utf8Decode(ingridout.bytes).ok
    /\ printed' = Utf8Decode(ingridout.bytes).text \o <<10>>
    /\ ipc' = "printed"
    /\ UNCHANGED <<ingridcode, p_stdin, p_out, p_err, tty_err, ingridout,
                   ingriderr, iret, iexc>>
    /\ UNCHANGED smoothvars

\* ingridout.decode() raises on bytes that are not UTF-8
PrintRaise ==
    /\ ipc = "communicated"
    /\ ~Utf8Decode(ingridout.bytes).ok
    /\ ipc' = "raised"
    /\ iexc' = "UnicodeDecodeError"
    /\ UNCHANGED <<ingridcode, p_stdin, p_out, p_err, tty_err, ingridout,
                   ingriderr, printed, iret>>
    /\ UNCHANGED smoothvars

\* return ingriderr
ReturnErr ==
    /\ ipc = "printed"
    /\ iret' = ingriderr
    /\ ipc' = "returned"
    /\ UNCHANGED <<ingridcode, p_stdin, p_out, p_err, tty_err, ingridout,
                   ingriderr, printed, iexc>>
    /\ UNCHANGED smoothvars

NextIngrid ==
    Popen \/ PopenRaise \/ Communicate \/ PrintOut \/ PrintRaise \/ ReturnErr

SpecIngrid == InitIngrid /\ [][NextIngrid]_vars

\* C9: callIngrid writes the script to the child as UTF-8, prints what the
\* child wrote to its standard output, and returns the bytes the child wrote
\* to its standard error.
C9_ReturnsStderr ==
    ipc = "returned" =>
        /\ p_stdin = Utf8Encode(ingridcode)
        /\ printed = Utf8Decode(p_out).text \o <<10>>
        /\ p_err # <<>> => iret = Bytes(p_err)

\* what the code does instead: the child's standard error is not a pipe, so
\* its bytes go to the caller's own standard error and None is returned
C9_ReturnsNone ==
    ipc = "returned" =>
        /\ p_stdin = Utf8Encode(ingridcode)
        /\ printed = Utf8Decode(p_out).text \o <<10>>
        /\ iret = None
        /\ tty_err = p_err

====
